---- MODULE Spec2Model ----
(***************************************************************************)
(* Model of pytext/metrics/mask_metrics.py: the length-metric aggregation  *)
(* (compute_length_metrics), the masked seq2seq metric record              *)
(* (compute_masked_metrics) and the NAS objective                          *)
(* (compute_nas_masked_metrics).                                           *)
(*                                                                         *)
(* The three functions are pure.  Each specification draws the arguments   *)
(* of one call in Init and has one action that performs the whole call and *)
(* stores what the caller observes: the returned value or the exception.   *)
(*                                                                         *)
(* Encodings.  A Python float that is a ratio of small integers is the     *)
(* pair <<numerator, denominator>> (not normalised; REq compares by cross  *)
(* multiplication).  None is the empty tuple and a present optional value  *)
(* v is the one-element tuple <<v>>.  A dict keyed 0..K-1 is a function    *)
(* with that domain; the empty dict is the function with empty domain.     *)
(***************************************************************************)
EXTENDS Integers, Sequences, FiniteSets, TLC

VARIABLES
    called,                   \* "none", or the name of the function called
    frame_pairs,              \* Sequence[FramePredictionPair]
    all_target_lens,          \* List[int]
    all_target_length_preds,  \* List[List[int]]
    select_length_beam,       \* int
    toggles,                  \* the boolean keyword arguments and length_metrics
    all_predicted_frames,     \* Optional list
    calculated_loss,          \* Optional[float]
    non_invalid_frame_pairs,  \* Optional[Sequence[FramePredictionPair]]
    extracted_frame_pairs,    \* Optional[Sequence[FramePredictionPair]]
    print_length_metrics,     \* bool
    model_num_param,          \* number
    ref_model_num_param,      \* number
    ref_frame_accuracy,       \* float, as a ratio
    param_importance,         \* integer exponent
    masked_seq2seq_joint_metrics,  \* the local of compute_nas_masked_metrics
    result                    \* [raised, value] observed by the caller

vars == <<called, frame_pairs, all_target_lens, all_target_length_preds,
          select_length_beam, toggles, all_predicted_frames, calculated_loss,
          non_invalid_frame_pairs, extracted_frame_pairs, print_length_metrics,
          model_num_param, ref_model_num_param, ref_frame_accuracy,
          param_importance, masked_seq2seq_joint_metrics, result>>

args == <<frame_pairs, all_target_lens, all_target_length_preds,
          select_length_beam, toggles, all_predicted_frames, calculated_loss,
          non_invalid_frame_pairs, extracted_frame_pairs, print_length_metrics,
          model_num_param, ref_model_num_param, ref_frame_accuracy,
          param_importance>>

----------------------------------------------------------------------------
(* Bounds of the model. *)

MaxN == 2         \* examples in a length-metric call
MaxK == 2         \* ranked length predictions per example (beam)
MaxLen == 1       \* largest gold or predicted length
MaxPairs == 2     \* frame-prediction pairs in a call
MaxParam == 2     \* largest parameter count
MaxAlpha == 2     \* largest param_importance

----------------------------------------------------------------------------
(* Values. *)

None == <<>>
Some(v) == <<v>>

Min(a, b) == IF a < b THEN a ELSE b
SetMax(S) == CHOOSE m \in S : \A x \in S : x <= m

SeqsOfLen(S, n) == [1..n -> S]
SeqsUpTo(S, n) == UNION {SeqsOfLen(S, k) : k \in 0..n}
Range(s) == {s[i] : i \in 1..Len(s)}

\* A successful return and a raised exception, as the caller sees them.
Returned(v) == [raised |-> "none", value |-> v]
Raised(e) == [raised |-> e, value |-> None]
NotCalled == ([raised |-> "none", value |-> None])

----------------------------------------------------------------------------
(* Python built-ins used by the code. *)

\* seq[lo:hi] with 0 <= lo: the elements at 0-based positions lo..hi-1,
\* clipped to the length of the sequence.
Slice(s, lo, hi) == SubSeq(s, lo + 1, Min(hi, Len(s)))

\* x in seq
In(x, s) == \E i \in 1..Len(s) : s[i] = x

\* str(n) for a non-negative integer
Digits == <<"0", "1", "2", "3", "4", "5", "6", "7", "8", "9">>
RECURSIVE str(_)
str(n) == IF n < 10 THEN Digits[n + 1]
          ELSE str(n \div 10) \o Digits[(n % 10) + 1]

\* sklearn.metrics.accuracy_score on two lists of equal length: the fraction
\* of positions where they agree.
accuracy_score(y_true, y_pred) ==
    <<Cardinality({i \in 1..Len(y_true) : y_true[i] = y_pred[i]}), Len(y_true)>>

\* pytext.metrics.compute_classification_metrics: the report is kept as the
\* arguments it was built from.
compute_classification_metrics(predictions, label_names, loss) ==
    [kind |-> "ClassificationMetrics", predictions |-> predictions,
     label_names |-> label_names, loss |-> loss]

EmptyDict == [i \in {} |-> None]

----------------------------------------------------------------------------
(* compute_length_metrics *)

\* Mutants of EffectivePrediction: the slice one short (preds[0 : l]), and
\* the l-th prediction taken alone (widths exclusive, not cumulative).
EffectivePrediction_ShortSlice(label, preds, l) ==
    IF In(label, Slice(preds, 0, l)) THEN label ELSE preds[1]

EffectivePrediction_Exclusive(label, preds, l) == preds[l + 1]

\* The effective prediction of one example at beam width l (0-based): the
\* gold length if it is among the first l+1 predictions, else the top one.
EffectivePrediction(label, preds, l) ==
    IF In(label, Slice(preds, 0, l + 1)) THEN label ELSE preds[1]

\* all_length_pred_agg after the loops: zip stops at the shorter list.
all_length_pred_agg(lens, length_preds, beam) ==
    [l \in 0..(beam - 1) |->
        [i \in 1..Min(Len(lens), Len(length_preds)) |->
            EffectivePrediction(lens[i], length_preds[i], l)]]

length_metrics_of(lens, agg, beam) ==
    [i \in 0..(beam - 1) |-> accuracy_score(lens, agg[i])]

\* Mutant of max_len_of: the gold lengths alone.
max_len_of_GoldOnly(lens, agg, b) == SetMax(Range(lens))

max_len_of(lens, agg, b) == SetMax(Range(lens) \cup Range(agg[b]))

all_pairs_of(lens, agg, b, max_len) ==
    [e \in 1..Len(agg[b]) |->
        [scores |-> [j \in 1..(max_len + 1) |->
                        IF (j - 1) = agg[b][e] THEN 1 ELSE 0],
         predicted_label |-> agg[b][e],
         expected_label |-> lens[e]]]

class_names_of(max_len) == [j \in 1..(max_len + 1) |-> str(j - 1)]

\* The body of "if all_target_length_preds:" (lines 88-113).
length_metrics_body(lens, length_preds, b) ==
    LET beam == Len(length_preds[1])
        agg == all_length_pred_agg(lens, length_preds, beam)
    IN  IF Len(lens) > Len(length_preds)
        THEN Raised("ValueError")   \* accuracy_score: inconsistent lengths
        ELSE IF Len(lens) = 0
        THEN Raised("ValueError")   \* no samples; max() of an empty list
        ELSE IF b \notin 0..(beam - 1)
        THEN Raised("KeyError")     \* all_length_pred_agg[select_length_beam]
        ELSE LET max_len == max_len_of(lens, agg, b)
             IN  Returned(
                    [length_metrics |-> length_metrics_of(lens, agg, beam),
                     length_report |->
                        compute_classification_metrics(
                            all_pairs_of(lens, agg, b, max_len),
                            class_names_of(max_len), <<0, 1>>)])

\* Mutant of compute_length_metrics: the emptiness test dropped, so that
\* all_target_length_preds[0] is read from an empty list.
compute_length_metrics_NoGuard(lens, length_preds, b) ==
    IF length_preds = <<>>
    THEN Raised("IndexError")
    ELSE length_metrics_body(lens, length_preds, b)

compute_length_metrics(lens, length_preds, b) ==
    IF length_preds = <<>>
    THEN Returned([length_metrics |-> EmptyDict, length_report |-> EmptyDict])
    ELSE length_metrics_body(lens, length_preds, b)

----------------------------------------------------------------------------
(* pytext.metrics.intent_slot_metrics, as far as this file uses it. *)

\* compute_frame_accuracy: the fraction of pairs whose predicted frame is
\* the expected one; 0 for no pairs and for an absent argument.
compute_frame_accuracy(pairs) ==
    IF pairs = None \/ pairs[1] = <<>>
    THEN <<0, 1>>
    ELSE <<Cardinality({i \in 1..Len(pairs[1]) :
                pairs[1][i].predicted_frame = pairs[1][i].expected_frame}),
           Len(pairs[1])>>

\* An optional list counts as true when it is present and not empty.
Truthy(opt) == opt # None /\ opt[1] # <<>>

\* compute_all_metrics: each metric group is computed when its toggle is
\* set and absent otherwise; frame accuracy at k needs the predicted
\* frames; the loss is passed through.  The groups other than frame
\* accuracy are kept as the inputs they are computed from.
\* The parameters, in the order of the call: the pairs, the toggles of top
\* intent accuracy, frame accuracy, frame accuracies by depth, bracket
\* metrics and tree metrics, overall_metrics, the predicted frames, the loss.
compute_all_metrics(pairs, top, frame, by_depth, bracket, tree, overall, predicted, loss) ==
    [top_intent_accuracy |->
        IF top THEN Some(<<"top_intent_accuracy", pairs>>) ELSE None,
     frame_accuracy |->
        IF frame THEN Some(compute_frame_accuracy(Some(pairs))) ELSE None,
     frame_accuracy_top_k |->
        IF Truthy(predicted)
        THEN Some(<<"frame_accuracy_top_k", pairs, predicted[1]>>) ELSE None,
     frame_accuracies_by_depth |->
        IF by_depth THEN Some(<<"frame_accuracies_by_depth", pairs>>) ELSE None,
     bracket_metrics |->
        IF bracket THEN Some(<<"bracket_metrics", pairs, overall>>) ELSE None,
     tree_metrics |->
        IF tree THEN Some(<<"tree_metrics", pairs, overall>>) ELSE None,
     loss |-> loss]

----------------------------------------------------------------------------
(* MaskedSeq2SeqJointMetrics and compute_masked_metrics *)

BaseFields ==
    {"top_intent_accuracy", "frame_accuracy", "frame_accuracy_top_k",
     "frame_accuracies_by_depth", "bracket_metrics", "tree_metrics", "loss",
     "length_metrics", "length_reports", "non_invalid_fa", "extracted_fa",
     "print_length_metrics"}

\* The defaults of the NamedTuple's fields.
FieldDefaults ==
    [loss |-> None, length_metrics |-> None, length_reports |-> None,
     non_invalid_fa |-> <<0, 1>>, extracted_fa |-> <<0, 1>>,
     print_length_metrics |-> TRUE]

\* MaskedSeq2SeqJointMetrics(**kwargs): every field from its keyword, or
\* from its default when the keyword is not given.
MaskedSeq2SeqJointMetrics(kwargs) ==
    [f \in BaseFields |->
        IF f \in DOMAIN kwargs THEN kwargs[f] ELSE FieldDefaults[f]]

\* The keyword parameters of compute_masked_metrics with their defaults
\* (lines 123-134).
MaskedDefaults ==
    [top_intent_accuracy |-> TRUE, frame_accuracy |-> TRUE,
     frame_accuracies_by_depth |-> TRUE, bracket_metrics |-> TRUE,
     tree_metrics |-> TRUE, overall_metrics |-> FALSE,
     all_predicted_frames |-> None, calculated_loss |-> None,
     length_metrics |-> None, non_invalid_frame_pairs |-> None,
     extracted_frame_pairs |-> None, print_length_metrics |-> TRUE]

\* Mutant of compute_masked_metrics: the bracket and tree toggles reach
\* compute_all_metrics in each other's position.
compute_masked_metrics_Swapped(pairs, lens, length_preds, b, kw) ==
    LET all_metrics ==
            compute_all_metrics(pairs, kw.top_intent_accuracy,
                                kw.frame_accuracy,
                                kw.frame_accuracies_by_depth,
                                kw.tree_metrics, kw.bracket_metrics,
                                kw.overall_metrics, kw.all_predicted_frames,
                                kw.calculated_loss)
        lengths == compute_length_metrics(lens, length_preds, b)
    IN  IF lengths.raised # "none"
        THEN lengths
        ELSE Returned(MaskedSeq2SeqJointMetrics(
                [top_intent_accuracy |-> all_metrics.top_intent_accuracy,
                 frame_accuracy |-> all_metrics.frame_accuracy,
                 frame_accuracy_top_k |-> all_metrics.frame_accuracy_top_k,
                 frame_accuracies_by_depth |-> all_metrics.frame_accuracies_by_depth,
                 bracket_metrics |-> all_metrics.bracket_metrics,
                 tree_metrics |-> all_metrics.tree_metrics,
                 loss |-> all_metrics.loss,
                 length_metrics |-> lengths.value.length_metrics,
                 length_reports |-> lengths.value.length_report,
                 non_invalid_fa |-> compute_frame_accuracy(kw.non_invalid_frame_pairs),
                 extracted_fa |-> compute_frame_accuracy(kw.extracted_frame_pairs),
                 print_length_metrics |-> kw.print_length_metrics]))

\* compute_masked_metrics on its four positional arguments and the record
\* kw of its keyword parameters.  kw.length_metrics is overwritten by the
\* computed mapping before it is read.  An exception of
\* compute_length_metrics propagates.
compute_masked_metrics(pairs, lens, length_preds, b, kw) ==
    LET all_metrics ==
            compute_all_metrics(pairs, kw.top_intent_accuracy,
                                kw.frame_accuracy,
                                kw.frame_accuracies_by_depth,
                                kw.bracket_metrics, kw.tree_metrics,
                                kw.overall_metrics, kw.all_predicted_frames,
                                kw.calculated_loss)
        lengths == compute_length_metrics(lens, length_preds, b)
    IN  IF lengths.raised # "none"
        THEN lengths
        ELSE Returned(MaskedSeq2SeqJointMetrics(
                [top_intent_accuracy |-> all_metrics.top_intent_accuracy,
                 frame_accuracy |-> all_metrics.frame_accuracy,
                 frame_accuracy_top_k |-> all_metrics.frame_accuracy_top_k,
                 frame_accuracies_by_depth |-> all_metrics.frame_accuracies_by_depth,
                 bracket_metrics |-> all_metrics.bracket_metrics,
                 tree_metrics |-> all_metrics.tree_metrics,
                 loss |-> all_metrics.loss,
                 length_metrics |-> lengths.value.length_metrics,
                 length_reports |-> lengths.value.length_report,
                 non_invalid_fa |-> compute_frame_accuracy(kw.non_invalid_frame_pairs),
                 extracted_fa |-> compute_frame_accuracy(kw.extracted_frame_pairs),
                 print_length_metrics |-> kw.print_length_metrics]))

----------------------------------------------------------------------------
(* NASMaskedSeq2SeqJointMetrics and compute_nas_masked_metrics *)

\* Arithmetic on ratios <<numerator, denominator>>.
RECURSIVE IntPow(_, _)
IntPow(x, e) == IF e = 0 THEN 1 ELSE x * IntPow(x, e - 1)

FromInt(n) == <<n, 1>>
RMul(a, b) == <<a[1] * b[1], a[2] * b[2]>>

\* x ** e for a non-negative number x and an integer e: 0 ** 0 is 1, and a
\* zero base with a negative exponent raises ZeroDivisionError.
PowRaises(x, e) == x[1] = 0 /\ e < 0
Pow(x, e) ==
    IF e >= 0 THEN <<IntPow(x[1], e), IntPow(x[2], e)>>
    ELSE <<IntPow(x[2], 0 - e), IntPow(x[1], 0 - e)>>

\* a / b, which raises ZeroDivisionError when b is zero.
TrueDiv(a, b) == <<a[1] * b[2], a[2] * b[1]>>

\* Mutant of nas_inner_call: the frame_accuracy toggle is forwarded.
nas_inner_call_Forwarding(pairs, lens, length_preds, b, kw) ==
    compute_masked_metrics(pairs, lens, length_preds, b,
        [MaskedDefaults EXCEPT
            !.frame_accuracy = kw.frame_accuracy,
            !.overall_metrics = TRUE,
            !.calculated_loss = kw.calculated_loss,
            !.all_predicted_frames = kw.all_predicted_frames,
            !.non_invalid_frame_pairs = kw.non_invalid_frame_pairs,
            !.extracted_frame_pairs = kw.extracted_frame_pairs])

\* The call of compute_masked_metrics (lines 189-199): overall_metrics is
\* True, five keywords are forwarded, and every other keyword parameter of
\* the callee (the toggles, length_metrics, print_length_metrics) keeps
\* the callee's default.
nas_inner_call(pairs, lens, length_preds, b, kw) ==
    compute_masked_metrics(pairs, lens, length_preds, b,
        [MaskedDefaults EXCEPT
            !.overall_metrics = TRUE,
            !.calculated_loss = kw.calculated_loss,
            !.all_predicted_frames = kw.all_predicted_frames,
            !.non_invalid_frame_pairs = kw.non_invalid_frame_pairs,
            !.extracted_frame_pairs = kw.extracted_frame_pairs])

\* Mutant of norm_prod: the two parameter counts exchanged.
norm_prod_Exchanged(frame_accuracy, model_param, ref_model_param, ref_accuracy, importance) ==
    IF PowRaises(FromInt(model_param), importance)
    THEN Raised("ZeroDivisionError")
    ELSE IF frame_accuracy = None THEN Raised("TypeError")
    ELSE IF PowRaises(FromInt(ref_model_param), importance)
    THEN Raised("ZeroDivisionError")
    ELSE LET numerator == RMul(frame_accuracy[1],
                               Pow(FromInt(model_param), importance))
             denominator == RMul(ref_accuracy,
                                 Pow(FromInt(ref_model_param), importance))
         IN  IF denominator[1] = 0 THEN Raised("ZeroDivisionError")
             ELSE Returned(TrueDiv(numerator, denominator))

\* Mutant of norm_prod: a zero divisor yields 0 (a "safe" division) instead
\* of raising.
norm_prod_SafeDivision(frame_accuracy, model_param, ref_model_param, ref_accuracy, importance) ==
    IF PowRaises(FromInt(ref_model_param), importance)
    THEN Returned(<<0, 1>>)
    ELSE IF frame_accuracy = None THEN Raised("TypeError")
    ELSE IF PowRaises(FromInt(model_param), importance)
    THEN Returned(<<0, 1>>)
    ELSE LET numerator == RMul(frame_accuracy[1],
                               Pow(FromInt(ref_model_param), importance))
             denominator == RMul(ref_accuracy,
                                 Pow(FromInt(model_param), importance))
         IN  IF denominator[1] = 0 THEN Returned(<<0, 1>>)
             ELSE Returned(TrueDiv(numerator, denominator))

\* norm_prod_model_param_frame_accuracy (lines 205-208), evaluated in
\* Python's order: the power and then the product of the numerator, the
\* power and the product of the denominator, the division.
norm_prod(frame_accuracy, model_param, ref_model_param, ref_accuracy, importance) ==
    IF PowRaises(FromInt(ref_model_param), importance)
    THEN Raised("ZeroDivisionError")
    ELSE IF frame_accuracy = None THEN Raised("TypeError")   \* None * number
    ELSE IF PowRaises(FromInt(model_param), importance)
    THEN Raised("ZeroDivisionError")
    ELSE LET numerator == RMul(frame_accuracy[1],
                               Pow(FromInt(ref_model_param), importance))
             denominator == RMul(ref_accuracy,
                                 Pow(FromInt(model_param), importance))
         IN  IF denominator[1] = 0 THEN Raised("ZeroDivisionError")
             ELSE Returned(TrueDiv(numerator, denominator))

\* Mutant of NASMaskedSeq2SeqJointMetrics: the two secondary accuracies
\* stored in each other's field.
NASMaskedSeq2SeqJointMetrics_Crossed(kwargs) ==
    LET base == MaskedSeq2SeqJointMetrics(
                    [f \in DOMAIN kwargs \ {"model_num_param",
                                            "norm_prod_model_param_frame_accuracy"}
                        |-> kwargs[f]])
    IN  [f \in BaseFields \cup {"model_num_param",
                                "norm_prod_model_param_frame_accuracy"} |->
            IF f = "non_invalid_fa" THEN base["extracted_fa"]
            ELSE IF f = "extracted_fa" THEN base["non_invalid_fa"]
            ELSE IF f \in BaseFields THEN base[f] ELSE kwargs[f]]

\* NASMaskedSeq2SeqJointMetrics.__new__: the two extra keywords are popped,
\* the base record is built from the rest, and the two are set on it.
NASMaskedSeq2SeqJointMetrics(kwargs) ==
    LET base == MaskedSeq2SeqJointMetrics(
                    [f \in DOMAIN kwargs \ {"model_num_param",
                                            "norm_prod_model_param_frame_accuracy"}
                        |-> kwargs[f]])
    IN  [f \in BaseFields \cup {"model_num_param",
                                "norm_prod_model_param_frame_accuracy"} |->
            IF f \in BaseFields THEN base[f] ELSE kwargs[f]]

\* The record returned at lines 210-224, from the inner result m.
nas_record(m, model_param, objective) ==
    NASMaskedSeq2SeqJointMetrics(
        [top_intent_accuracy |-> m.top_intent_accuracy,
         frame_accuracy |-> m.frame_accuracy,
         frame_accuracy_top_k |-> m.frame_accuracy_top_k,
         frame_accuracies_by_depth |-> m.frame_accuracies_by_depth,
         bracket_metrics |-> m.bracket_metrics,
         tree_metrics |-> m.tree_metrics,
         loss |-> m.loss,
         length_metrics |-> m.length_metrics,
         length_reports |-> m.length_reports,
         non_invalid_fa |-> m.non_invalid_fa,
         extracted_fa |-> m.extracted_fa,
         model_num_param |-> model_param,
         norm_prod_model_param_frame_accuracy |-> objective])

\* compute_nas_masked_metrics on its four positional arguments and the
\* record kw of its keyword parameters (lines 172-186).  The toggles and
\* length_metrics in kw are accepted and never read.
compute_nas_masked_metrics(pairs, lens, length_preds, b, kw) ==
    LET inner == nas_inner_call(pairs, lens, length_preds, b, kw)
    IN  IF inner.raised # "none"
        THEN inner
        ELSE LET objective == norm_prod(inner.value.frame_accuracy,
                                        kw.model_num_param,
                                        kw.ref_model_num_param,
                                        kw.ref_frame_accuracy,
                                        kw.param_importance)
             IN  IF objective.raised # "none"
                 THEN objective
                 ELSE Returned(nas_record(inner.value, kw.model_num_param,
                                          objective.value))

----------------------------------------------------------------------------
(* Argument domains. *)

Lengths == 0..MaxLen
TargetLens == SeqsUpTo(Lengths, MaxN)
\* One ranked prediction list per example, every list of the same size
\* K >= 1; or no prediction list at all.
TargetLengthPreds(n) ==
    {<<>>} \cup UNION {SeqsOfLen(SeqsOfLen(Lengths, k), n) : k \in 1..MaxK}
\* The selected beam: one of 0..K-1 when there are predictions of size K,
\* and any index up to the widest beam when there are none.
Beams(length_preds) ==
    IF length_preds = <<>> THEN 0..MaxK ELSE 0..(Len(length_preds[1]) - 1)

\* Two frame-prediction pairs: one whose predicted frame is the expected
\* one, one whose is not.
FramePairs ==
    {[predicted_frame |-> "IN:a", expected_frame |-> "IN:a"],
     [predicted_frame |-> "IN:b", expected_frame |-> "IN:a"]}
FramePairLists == SeqsUpTo(FramePairs, MaxPairs)
OptionalSubsets == {None} \cup {Some(<<p>>) : p \in FramePairs}
PredictedFrames == {None, Some(<<<<"IN:a">>>>)}
Losses == {None, Some(<<1, 2>>)}

Toggles ==
    [top_intent_accuracy : BOOLEAN, frame_accuracy : BOOLEAN,
     frame_accuracies_by_depth : BOOLEAN, bracket_metrics : BOOLEAN,
     tree_metrics : BOOLEAN, overall_metrics : BOOLEAN,
     length_metrics : {None, Some(EmptyDict)}]

\* Length arguments <<all_target_lens, all_target_length_preds,
\* select_length_beam>> of the composed calls: no predictions; two examples
\* with two predictions each; a beam index out of range.
ReturningLengthArgs ==
    {<<<<>>, <<>>, 0>>,
     <<<<1, 0>>, <<<<0, 1>>, <<1, 0>>>>, 1>>}
RaisingLengthArgs == {<<<<1>>, <<<<0, 1>>>>, 2>>}

Params == 0..MaxParam
RefAccuracies == {<<n, MaxPairs>> : n \in 0..MaxPairs}
Importances == (-1)..MaxAlpha

DefaultToggles ==
    [top_intent_accuracy |-> TRUE, frame_accuracy |-> TRUE,
     frame_accuracies_by_depth |-> TRUE, bracket_metrics |-> TRUE,
     tree_metrics |-> TRUE, overall_metrics |-> FALSE, length_metrics |-> None]

\* The arguments a length-metric call does not take.
OtherArgsDefault ==
    /\ frame_pairs = <<>>
    /\ toggles = DefaultToggles
    /\ all_predicted_frames = None
    /\ calculated_loss = None
    /\ non_invalid_frame_pairs = None
    /\ extracted_frame_pairs = None
    /\ print_length_metrics = TRUE
    /\ model_num_param = 1
    /\ ref_model_num_param = 1
    /\ ref_frame_accuracy = <<1, 1>>
    /\ param_importance = 1

NoLocals == masked_seq2seq_joint_metrics = NotCalled

----------------------------------------------------------------------------
(* Calls of compute_length_metrics. *)

InitLength ==
    /\ called = "none"
    /\ result = NotCalled
    /\ NoLocals
    /\ all_target_lens \in TargetLens
    /\ all_target_length_preds \in TargetLengthPreds(Len(all_target_lens))
    /\ select_length_beam \in Beams(all_target_length_preds)
    /\ OtherArgsDefault

CallLengthMetrics ==
    /\ called = "none"
    /\ called' = "compute_length_metrics"
    /\ result' = compute_length_metrics(all_target_lens,
                                        all_target_length_preds,
                                        select_length_beam)
    /\ UNCHANGED <<args, masked_seq2seq_joint_metrics>>

NextLength == CallLengthMetrics

SpecLength == InitLength /\ [][NextLength]_vars

----------------------------------------------------------------------------
(* Calls of compute_masked_metrics and compute_nas_masked_metrics. *)

\* The keyword arguments of a call of compute_masked_metrics.
MaskedKw ==
    [top_intent_accuracy |-> toggles.top_intent_accuracy,
     frame_accuracy |-> toggles.frame_accuracy,
     frame_accuracies_by_depth |-> toggles.frame_accuracies_by_depth,
     bracket_metrics |-> toggles.bracket_metrics,
     tree_metrics |-> toggles.tree_metrics,
     overall_metrics |-> toggles.overall_metrics,
     all_predicted_frames |-> all_predicted_frames,
     calculated_loss |-> calculated_loss,
     length_metrics |-> toggles.length_metrics,
     non_invalid_frame_pairs |-> non_invalid_frame_pairs,
     extracted_frame_pairs |-> extracted_frame_pairs,
     print_length_metrics |-> print_length_metrics]

CallMaskedMetrics ==
    /\ called = "none"
    /\ called' = "compute_masked_metrics"
    /\ result' = compute_masked_metrics(frame_pairs, all_target_lens,
                                        all_target_length_preds,
                                        select_length_beam, MaskedKw)
    /\ UNCHANGED <<args, masked_seq2seq_joint_metrics>>

\* The keyword arguments of a call of compute_nas_masked_metrics with the
\* toggles t.
NasKw(t) ==
    [top_intent_accuracy |-> t.top_intent_accuracy,
     frame_accuracy |-> t.frame_accuracy,
     frame_accuracies_by_depth |-> t.frame_accuracies_by_depth,
     bracket_metrics |-> t.bracket_metrics,
     tree_metrics |-> t.tree_metrics,
     overall_metrics |-> t.overall_metrics,
     all_predicted_frames |-> all_predicted_frames,
     calculated_loss |-> calculated_loss,
     length_metrics |-> t.length_metrics,
     non_invalid_frame_pairs |-> non_invalid_frame_pairs,
     extracted_frame_pairs |-> extracted_frame_pairs,
     model_num_param |-> model_num_param,
     ref_model_num_param |-> ref_model_num_param,
     ref_frame_accuracy |-> ref_frame_accuracy,
     param_importance |-> param_importance]

NasCall(t) ==
    compute_nas_masked_metrics(frame_pairs, all_target_lens,
                               all_target_length_preds, select_length_beam,
                               NasKw(t))

CallNasMaskedMetrics ==
    /\ called = "none"
    /\ called' = "compute_nas_masked_metrics"
    /\ masked_seq2seq_joint_metrics' =
            nas_inner_call(frame_pairs, all_target_lens,
                           all_target_length_preds, select_length_beam,
                           NasKw(toggles))
    /\ result' = NasCall(toggles)
    /\ UNCHANGED args

\* Calls with every combination of the toggles.
InitToggles ==
    /\ called = "none"
    /\ result = NotCalled
    /\ NoLocals
    /\ toggles \in Toggles
    /\ frame_pairs \in FramePairLists
    /\ \E a \in ReturningLengthArgs \cup RaisingLengthArgs :
          /\ all_target_lens = a[1]
          /\ all_target_length_preds = a[2]
          /\ select_length_beam = a[3]
    /\ all_predicted_frames \in PredictedFrames
    /\ calculated_loss = None
    /\ non_invalid_frame_pairs \in OptionalSubsets
    /\ extracted_frame_pairs = None
    /\ print_length_metrics \in BOOLEAN
    /\ model_num_param = 1
    /\ ref_model_num_param = 1
    /\ ref_frame_accuracy = <<1, 1>>
    /\ param_importance = 1

NextToggles == CallMaskedMetrics \/ CallNasMaskedMetrics

SpecToggles == InitToggles /\ [][NextToggles]_vars

\* Calls of compute_nas_masked_metrics with every combination of the
\* numbers the objective is computed from.
InitObjective ==
    /\ called = "none"
    /\ result = NotCalled
    /\ NoLocals
    /\ toggles = DefaultToggles
    /\ frame_pairs \in FramePairLists
    /\ \E a \in ReturningLengthArgs :
          /\ all_target_lens = a[1]
          /\ all_target_length_preds = a[2]
          /\ select_length_beam = a[3]
    /\ all_predicted_frames \in PredictedFrames
    /\ calculated_loss \in Losses
    /\ non_invalid_frame_pairs \in OptionalSubsets
    /\ extracted_frame_pairs \in OptionalSubsets
    /\ print_length_metrics = TRUE
    /\ model_num_param \in Params
    /\ ref_model_num_param \in Params
    /\ ref_frame_accuracy \in RefAccuracies
    /\ param_importance \in Importances

NextObjective == CallNasMaskedMetrics

SpecObjective == InitObjective /\ [][NextObjective]_vars

----------------------------------------------------------------------------
(* Properties of compute_length_metrics, checked under SpecLength. *)

\* Ratios are compared by cross multiplication (denominators are positive).
REq(a, b) == a[1] * b[2] = b[1] * a[2]
RLeq(a, b) == a[1] * b[2] <= b[1] * a[2]

\* A call of compute_length_metrics on N >= 1 examples that returned.
LengthReturned ==
    /\ called = "compute_length_metrics"
    /\ all_target_length_preds # <<>>
    /\ result.raised = "none"

NumExamples == Len(all_target_lens)
BeamWidth == Len(all_target_length_preds[1])

\* The examples whose gold length is among their first k+1 predictions.
GoldAmongTop(k) ==
    {i \in 1..NumExamples :
        \E j \in 1..(k + 1) : all_target_length_preds[i][j] = all_target_lens[i]}

\* C1: for N >= 1 examples with K >= 1 ranked predictions each, the returned
\* length_metrics has exactly the keys 0..K-1 and length_metrics[k] is the
\* number of examples whose gold length is among P[i][0..k], over N; so
\* length_metrics[0] is 1 when every gold length equals P[i][0].
C1_LengthMetricsAreTopKAccuracy ==
    LengthReturned =>
        /\ DOMAIN result.value.length_metrics = 0..(BeamWidth - 1)
        /\ \A k \in 0..(BeamWidth - 1) :
              result.value.length_metrics[k]
                  = <<Cardinality(GoldAmongTop(k)), NumExamples>>
        /\ (\A i \in 1..NumExamples :
                all_target_lens[i] = all_target_length_preds[i][1])
              => REq(result.value.length_metrics[0], <<1, 1>>)

\* C1 witness: a returned call on two examples, beam 2, where one gold length
\* is only the second prediction and the other is among no prediction.
C1_Witness ==
    /\ LengthReturned
    /\ NumExamples = 2 /\ BeamWidth = 2
    /\ GoldAmongTop(0) = {} /\ Cardinality(GoldAmongTop(1)) = 1

\* C2: the returned accuracies do not decrease with the beam width.
C2_LengthMetricsMonotone ==
    LengthReturned =>
        \A k \in 0..(BeamWidth - 1) : \A k2 \in k..(BeamWidth - 1) :
            RLeq(result.value.length_metrics[k], result.value.length_metrics[k2])

\* C2 witness: a returned call where an example is right at width 0 but its
\* second prediction is wrong, and another becomes right only at width 1.
C2_Witness ==
    /\ LengthReturned
    /\ NumExamples = 2 /\ BeamWidth = 2
    /\ all_target_lens[1] = all_target_length_preds[1][1]
    /\ all_target_lens[1] # all_target_length_preds[1][2]
    /\ all_target_lens[2] # all_target_length_preds[2][1]
    /\ all_target_lens[2] = all_target_length_preds[2][2]

\* C3: with an empty prediction list the call returns an empty mapping and
\* an empty report and raises nothing, whatever the gold lengths and the
\* selected beam are.
C3_EmptyPredsReturnEmpty ==
    (called = "compute_length_metrics" /\ all_target_length_preds = <<>>) =>
        /\ result.raised = "none"
        /\ result.value.length_metrics = EmptyDict
        /\ result.value.length_report = EmptyDict

\* C3 witness: such a call with gold lengths present and a beam index that
\* no prediction list could hold.
C3_Witness ==
    /\ called = "compute_length_metrics"
    /\ all_target_length_preds = <<>>
    /\ all_target_lens # <<>>
    /\ select_length_beam = MaxK
    /\ result.raised = "none"

\* The effective predictions at the selected beam, recomputed from the
\* arguments.
Effective(i) ==
    IF \E j \in 1..(select_length_beam + 1) :
            all_target_length_preds[i][j] = all_target_lens[i]
    THEN all_target_lens[i] ELSE all_target_length_preds[i][1]

Larger(a, b) == IF a >= b THEN a ELSE b

ReportPairs == result.value.length_report.predictions
ReportNames == result.value.length_report.label_names

\* What C9 and its amendment share: one LabelPrediction per example, with
\* the effective prediction and the gold length as labels and a score
\* vector holding a single 1, at the index of the effective prediction.
OneHotAtEffective ==
    /\ Len(ReportPairs) = NumExamples
    /\ \A i \in 1..NumExamples :
          /\ ReportPairs[i].predicted_label = Effective(i)
          /\ ReportPairs[i].expected_label = all_target_lens[i]
          /\ Effective(i) + 1 \in 1..Len(ReportPairs[i].scores)
          /\ \A j \in 1..Len(ReportPairs[i].scores) :
                ReportPairs[i].scores[j]
                    = IF j = Effective(i) + 1 THEN 1 ELSE 0

\* C9 as stated: every example's score vector ranges over
\* [0, max(gold length, effective prediction)] of that example, and the
\* class names are the stringified integers of the same range.
C9_PerExampleRange ==
    LengthReturned =>
        /\ OneHotAtEffective
        /\ \A i \in 1..NumExamples :
              /\ Len(ReportPairs[i].scores)
                    = Larger(all_target_lens[i], Effective(i)) + 1
              /\ Len(ReportNames) = Len(ReportPairs[i].scores)

\* The largest gold length or effective prediction over all examples.
IsGlobalMax(m) ==
    /\ \A i \in 1..NumExamples : all_target_lens[i] <= m /\ Effective(i) <= m
    /\ \E i \in 1..NumExamples : all_target_lens[i] = m \/ Effective(i) = m

\* C9 amended: every score vector ranges over [0, M], M the largest gold
\* length or effective prediction at the selected beam over all examples;
\* the class names are "0" .. str(M); the placeholder loss is 0.
C9_GlobalRange ==
    LengthReturned =>
        /\ OneHotAtEffective
        /\ IsGlobalMax(Len(ReportNames) - 1)
        /\ \A i \in 1..NumExamples :
              Len(ReportPairs[i].scores) = Len(ReportNames)
        /\ \A j \in 1..Len(ReportNames) : ReportNames[j] = Digits[j]
        /\ REq(result.value.length_report.loss, <<0, 1>>)

\* C9 witness: a returned call on two examples whose own ranges differ.
C9_Witness ==
    /\ LengthReturned
    /\ NumExamples = 2
    /\ Larger(all_target_lens[1], Effective(1))
          # Larger(all_target_lens[2], Effective(2))
    /\ Effective(2) # all_target_lens[2]

----------------------------------------------------------------------------
(* Properties of compute_masked_metrics, checked under SpecToggles. *)

ToggledGroups ==
    {"top_intent_accuracy", "frame_accuracy", "frame_accuracies_by_depth",
     "bracket_metrics", "tree_metrics"}

\* What each group holds when it is computed.
ComputedGroup(g) ==
    IF g = "frame_accuracy"
    THEN Some(compute_frame_accuracy(Some(frame_pairs)))
    ELSE IF g \in {"bracket_metrics", "tree_metrics"}
    THEN Some(<<g, frame_pairs, toggles.overall_metrics>>)
    ELSE Some(<<g, frame_pairs>>)

\* C7: in a result of compute_masked_metrics every group whose toggle is
\* false is None, every group whose toggle is true is the group of that
\* name, and length_metrics and length_reports are what
\* compute_length_metrics returns, whatever the toggles are.
C7_TogglesGateTheirGroups ==
    (called = "compute_masked_metrics" /\ result.raised = "none") =>
        /\ \A g \in ToggledGroups :
              result.value[g] = IF toggles[g] THEN ComputedGroup(g) ELSE None
        /\ LET lengths == compute_length_metrics(all_target_lens,
                                                 all_target_length_preds,
                                                 select_length_beam)
           IN  /\ result.value.length_metrics = lengths.value.length_metrics
               /\ result.value.length_reports = lengths.value.length_report

\* C7 witness: a returned call with the bracket group off, the tree group
\* on, all other groups off, and length predictions present.
C7_Witness ==
    /\ called = "compute_masked_metrics" /\ result.raised = "none"
    /\ ~toggles.bracket_metrics /\ toggles.tree_metrics
    /\ ~toggles.frame_accuracy /\ ~toggles.top_intent_accuracy
    /\ ~toggles.frame_accuracies_by_depth
    /\ result.value.bracket_metrics = None
    /\ DOMAIN result.value.length_metrics = 0..1

----------------------------------------------------------------------------
(* Properties of compute_nas_masked_metrics. *)

NasReturned ==
    called = "compute_nas_masked_metrics" /\ result.raised = "none"

\* C4 as stated (SpecToggles): a call with frame_accuracy=False raises
\* instead of returning a result with an objective.
C4_FrameAccuracyOffRaises ==
    (called = "compute_nas_masked_metrics" /\ ~toggles.frame_accuracy) =>
        result.raised # "none"

\* The numbers the objective is computed from, all positive, and a
\* non-negative exponent.
Accuracy == masked_seq2seq_joint_metrics.value.frame_accuracy[1]
Objective == result.value.norm_prod_model_param_frame_accuracy
ObjectiveCase ==
    /\ NasReturned
    /\ Accuracy[1] > 0 /\ ref_frame_accuracy[1] > 0
    /\ model_num_param > 0 /\ ref_model_num_param > 0
    /\ param_importance >= 0

\* IntPow restated for the property: the product of e copies of x.
RECURSIVE Product(_, _)
Product(x, e) == IF e <= 0 THEN 1 ELSE Product(x, e - 1) * x

\* C5 (SpecObjective): the stored objective is
\* (frame_accuracy * ref_model_num_param^alpha)
\*   / (ref_frame_accuracy * model_num_param^alpha);
\* with equal accuracies and alpha = 1 it is 1 for equal parameter counts
\* and 2 for a model of half the reference's parameters.
C5_ObjectiveFormula ==
    ObjectiveCase =>
        /\ Objective[2] # 0
        /\ Objective[1] * (ref_frame_accuracy[1] * Accuracy[2]
                            * Product(model_num_param, param_importance))
             = Objective[2] * (Accuracy[1] * ref_frame_accuracy[2]
                                * Product(ref_model_num_param, param_importance))
        /\ (REq(Accuracy, ref_frame_accuracy) /\ param_importance = 1) =>
              /\ model_num_param = ref_model_num_param
                    => REq(Objective, <<1, 1>>)
              /\ 2 * model_num_param = ref_model_num_param
                    => REq(Objective, <<2, 1>>)

\* C5 witness: accuracy 1/2 against a reference 1/2, a model of 1 parameter
\* against a reference of 2, alpha = 1; and the objective is 2.
C5_Witness ==
    /\ ObjectiveCase
    /\ REq(Accuracy, <<1, 2>>) /\ REq(ref_frame_accuracy, <<1, 2>>)
    /\ model_num_param = 1 /\ ref_model_num_param = 2
    /\ param_importance = 1
    /\ REq(Objective, <<2, 1>>)

C8_BaseFieldsPreserved ==
    NasReturned =>
        /\ \A f \in BaseFields :
              result.value[f] = masked_seq2seq_joint_metrics.value[f]
        /\ DOMAIN result.value
              = BaseFields \cup {"model_num_param",
                                 "norm_prod_model_param_frame_accuracy"}
        /\ result.value.model_num_param = model_num_param

\* C8 witness: a returned call whose two secondary accuracies differ and
\* whose loss, length metrics and top-k accuracy are present.
C8_Witness ==
    /\ NasReturned
    /\ ~REq(result.value.non_invalid_fa, result.value.extracted_fa)
    /\ result.value.loss # None
    /\ result.value.frame_accuracy_top_k # None
    /\ DOMAIN result.value.length_metrics = 0..1

\* C10 (SpecToggles): what a call returns or raises is what the call with
\* the default toggles and no length_metrics returns or raises on the same
\* other arguments; so any two calls that differ only in these agree.
C10_TogglesIgnored ==
    called = "compute_nas_masked_metrics" => result = NasCall(DefaultToggles)

\* C10 witness: a returned call with every toggle opposite to its default
\* and a length_metrics argument given.
C10_Witness ==
    /\ NasReturned
    /\ ~toggles.top_intent_accuracy /\ ~toggles.frame_accuracy
    /\ ~toggles.frame_accuracies_by_depth /\ ~toggles.bracket_metrics
    /\ ~toggles.tree_metrics /\ toggles.overall_metrics
    /\ toggles.length_metrics # None
    /\ result.value.frame_accuracy # None

====
